---- MODULE Spec2Model ----
(***************************************************************************)
(* A model of core/fast_string.rs: the FastString enum (Static,            *)
(* StaticAscii, Arc), its constructors, accessors, the v8 conversion and   *)
(* truncate, over a heap of reference-counted Arc<str> allocations.        *)
(*                                                                         *)
(* A &'static str is a record (ptr, len): ptr names the literal embedded   *)
(* in the binary (modelled by the literal's bytes), len the length of the  *)
(* slice that starts at the literal's first byte.  A slot is a variable    *)
(* of the calling program: it is empty, or holds a FastString, or holds    *)
(* an Arc<str> the caller made itself.  An Arc<str> allocation is a        *)
(* record of its bytes and of the slots whose pointer refers to it; the    *)
(* strong count is the number of these slots.                              *)
(***************************************************************************)
EXTENDS Integers, Sequences, FiniteSets, TLC

(* ---------------------------- bounds ----------------------------------- *)
NumSlots == 2

(* ------------------------- input domains ------------------------------- *)
\* The texts the program builds values from: the empty text, an ASCII text
\* that ends in 0x7f, and "1" followed by U+0080 (UTF-8: 0xc2 0x80).
Texts == {<<>>, <<49, 127>>, <<49, 194, 128>>}

\* A Url serialises to an ASCII string ("a:").
Urls == {[serialization |-> <<97, 58>>]}

Slots == 1..NumSlots

Prefix(s, n) == SubSeq(s, 1, n)

\* the indices truncate is called with: up to one past the longest text
LongestText == CHOOSE t \in Texts : \A u \in Texts : Len(u) <= Len(t)
Indices == 0..(Len(LongestText) + 1)

(* --------------------------- the state --------------------------------- *)
VARIABLES
  vals,    \* what each slot holds
  heap,    \* the live Arc<str> allocations
  hist,    \* per slot: the text the value was built from, smallest index
  last     \* the last operation: the slots and arguments, how it ended

vars == <<vals, heap, hist, last>>

(* --------------------------- the enum ---------------------------------- *)
None == [tag |-> "None", ptr |-> <<>>, len |-> 0]
Static(s) == [tag |-> "Static", ptr |-> s.ptr, len |-> s.len]
StaticAscii(s) == [tag |-> "StaticAscii", ptr |-> s.ptr, len |-> s.len]

\* Arc(Arc<str>): the pointer is the slot's entry in the heap's holders
Arc == [tag |-> "Arc", ptr |-> <<>>, len |-> 0]

\* an Arc<str> of the caller, not wrapped in a FastString
ArcStr == [tag |-> "ArcStr", ptr |-> <<>>, len |-> 0]
FastTags == {"Static", "StaticAscii", "Arc"}

\* the &'static str of a whole literal, and the bytes a &'static str views
StaticStr(t) == [ptr |-> t, len |-> Len(t)]
StrBytes(s) == Prefix(s.ptr, s.len)

(* ----------------------- std: u8, str, String -------------------------- *)
\* u8::is_ascii with the comparison off by one
u8_is_ascii_le_0x80(b) == b <= 128

u8_is_ascii(b) == b <= 127

\* str::is_char_boundary
is_char_boundary(bytes, index) ==
  IF index = 0 THEN TRUE
  ELSE IF index >= Len(bytes) THEN index = Len(bytes)
  ELSE bytes[index + 1] < 128 \/ bytes[index + 1] >= 192

\* &s[..index] succeeds (it panics otherwise)
SliceOk(bytes, index) == is_char_boundary(bytes, index)

\* String::truncate, as the test uses it on the reference String
StringTruncate(bytes, n) == IF n <= Len(bytes) THEN Prefix(bytes, n) ELSE bytes

(* ------------------------------ heap ----------------------------------- *)
\* the allocation the Arc<str> in slot s points to
AllocOf(h, s) == CHOOSE a \in h : s \in a.holders
ArcBytes(h, s) == AllocOf(h, s).bytes

\* a new allocation holding bytes, pointed to from slot s
ArcAlloc(h, s, bytes) == h \cup {[bytes |-> bytes, holders |-> {s}]}

\* Arc::clone of the pointer in slot s, the clone goes to slot d
ArcShare(h, s, d) ==
  LET a == AllocOf(h, s) IN (h \ {a}) \cup {[a EXCEPT !.holders = @ \cup {d}]}

\* the pointer in slot s moves to slot d
ArcMove(h, s, d) ==
  LET a == AllocOf(h, s)
  IN (h \ {a}) \cup {[a EXCEPT !.holders = (@ \ {s}) \cup {d}]}

\* Drop for the Arc in slot s: the allocation is freed with the last reference
ArcRelease(h, s) ==
  LET a == AllocOf(h, s)
  IN IF a.holders = {s} THEN h \ {a}
     ELSE (h \ {a}) \cup {[a EXCEPT !.holders = @ \ {s}]}

\* Drop for the value v in slot s
DropValue(h, v, s) == IF v.tag \in {"Arc", "ArcStr"} THEN ArcRelease(h, s) ELSE h

(* ------------------------- pure functions ------------------------------ *)
RECURSIVE is_ascii_from(_, _)
is_ascii_from(s, i) ==
  IF i < Len(s)
  THEN IF ~u8_is_ascii(s[i + 1]) THEN FALSE ELSE is_ascii_from(s, i + 1)
  ELSE TRUE

is_ascii(s) == is_ascii_from(s, 0)

\* from_static with the arms of the if exchanged
from_static_swapped(s) ==
  IF is_ascii(StrBytes(s)) THEN Static(s) ELSE StaticAscii(s)

from_static(s) ==
  IF is_ascii(StrBytes(s)) THEN StaticAscii(s) ELSE Static(s)

\* Option<&'static [u8]>
try_static_ascii(v) ==
  IF v.tag = "StaticAscii"
  THEN [some |-> TRUE, bytes |-> StrBytes(v)]
  ELSE [some |-> FALSE, bytes |-> <<>>]

\* self: the slot the value v lives in
as_bytes(h, v, self) ==
  CASE v.tag = "Arc" -> ArcBytes(h, self)
    [] v.tag = "Static" -> StrBytes(v)
    [] v.tag = "StaticAscii" -> StrBytes(v)

as_str(h, v, self) ==
  CASE v.tag = "Arc" -> ArcBytes(h, self)
    [] v.tag = "Static" -> StrBytes(v)
    [] v.tag = "StaticAscii" -> StrBytes(v)

\* derive(PartialEq): the variants are compared as well
eq_derived(h, a, selfa, b, selfb) ==
  a.tag = b.tag /\ as_bytes(h, a, selfa) = as_bytes(h, b, selfb)

eq(h, a, selfa, b, selfb) == as_bytes(h, a, selfa) = as_bytes(h, b, selfb)

\* what Hash::hash writes to the hasher: str's Hash writes the bytes, then 0xff
hash(h, v, self) == as_str(h, v, self) \o <<255>>

\* v8 choosing the constructor by scanning the content
v8_by_content(h, v, self) ==
  IF is_ascii(as_bytes(h, v, self))
  THEN [ctor |-> "new_external_onebyte_static", bytes |-> as_bytes(h, v, self),
        static |-> v.tag # "Arc"]
  ELSE [ctor |-> "new_from_utf8", bytes |-> as_bytes(h, v, self), static |-> FALSE]

\* which engine constructor v8() calls, with which bytes; static: the bytes
\* are handed over as &'static [u8]
v8(h, v, self) ==
  LET s == try_static_ascii(v) IN
  IF s.some
  THEN [ctor |-> "new_external_onebyte_static", bytes |-> s.bytes, static |-> TRUE]
  ELSE [ctor |-> "new_from_utf8", bytes |-> as_bytes(h, v, self), static |-> FALSE]

(* ------------------- operations that touch the heap -------------------- *)
Result(o, v, h) == [outcome |-> o, val |-> v, heap |-> h]

\* impl From<String> for FastString: the String becomes a new Arc<str>
\* allocation holding the same bytes; the value goes to slot d
from_string(h, bytes, d) == Result("ok", Arc, ArcAlloc(h, d, bytes))

\* impl From<Url> for FastString
from_url(h, url, d) == from_string(h, url.serialization, d)

\* from_ownable that does not scan a borrowed text
from_ownable_noscan(h, cow, d) ==
  IF cow.owned
  THEN Result("ok", Arc, ArcAlloc(h, d, cow.bytes))
  ELSE Result("ok", Static(StaticStr(cow.bytes)), h)

\* from_ownable, applied to the Cow that maybe_into_owned_vec returned
from_ownable(h, cow, d) ==
  IF cow.owned
  THEN Result("ok", Arc, ArcAlloc(h, d, cow.bytes))
  ELSE Result("ok", from_static(StaticStr(cow.bytes)), h)

\* from_arc wraps the Arc<str> it is given
from_arc(h) == Result("ok", Arc, h)

\* ensure_static_ascii that falls back to Static instead of panicking
ensure_static_ascii_fallback(h, s) ==
  IF is_ascii(StrBytes(s))
  THEN Result("ok", StaticAscii(s), h)
  ELSE Result("ok", Static(s), h)

ensure_static_ascii(h, s) ==
  IF is_ascii(StrBytes(s))
  THEN Result("ok", StaticAscii(s), h)
  ELSE Result("panic", None, h)

default == StaticAscii(StaticStr(<<>>))

\* derive(Clone): the clone of the value in slot self goes to slot d
clone(h, v, self, d) ==
  CASE v.tag = "Static" -> Result("ok", Static(v), h)
    [] v.tag = "StaticAscii" -> Result("ok", StaticAscii(v), h)
    [] v.tag = "Arc" -> Result("ok", Arc, ArcShare(h, self, d))

\* truncate whose Arc arm copies the whole string
truncate_whole(h, v, self, index) ==
  CASE v.tag = "Static" ->
         IF SliceOk(StrBytes(v), index)
         THEN Result("ok", Static([ptr |-> v.ptr, len |-> index]), h)
         ELSE Result("panic", v, h)
    [] v.tag = "StaticAscii" ->
         IF SliceOk(StrBytes(v), index)
         THEN Result("ok", StaticAscii([ptr |-> v.ptr, len |-> index]), h)
         ELSE Result("panic", v, h)
    [] v.tag = "Arc" ->
         IF SliceOk(ArcBytes(h, self), index)
         THEN from_string(ArcRelease(h, self), ArcBytes(h, self), self)
         ELSE Result("panic", v, h)

\* truncate whose Arc arm shortens the shared allocation in place
truncate_in_place(h, v, self, index) ==
  CASE v.tag = "Static" ->
         IF SliceOk(StrBytes(v), index)
         THEN Result("ok", Static([ptr |-> v.ptr, len |-> index]), h)
         ELSE Result("panic", v, h)
    [] v.tag = "StaticAscii" ->
         IF SliceOk(StrBytes(v), index)
         THEN Result("ok", StaticAscii([ptr |-> v.ptr, len |-> index]), h)
         ELSE Result("panic", v, h)
    [] v.tag = "Arc" ->
         IF SliceOk(ArcBytes(h, self), index)
         THEN LET a == AllocOf(h, self)
              IN Result("ok", Arc, (h \ {a}) \cup {[a EXCEPT !.bytes = Prefix(@, index)]})
         ELSE Result("panic", v, h)

\* truncate whose Static arm classifies the prefix again
truncate_rescan(h, v, self, index) ==
  CASE v.tag = "Static" ->
         IF SliceOk(StrBytes(v), index)
         THEN Result("ok", from_static([ptr |-> v.ptr, len |-> index]), h)
         ELSE Result("panic", v, h)
    [] v.tag = "StaticAscii" ->
         IF SliceOk(StrBytes(v), index)
         THEN Result("ok", StaticAscii([ptr |-> v.ptr, len |-> index]), h)
         ELSE Result("panic", v, h)
    [] v.tag = "Arc" ->
         IF SliceOk(ArcBytes(h, self), index)
         THEN from_string(ArcRelease(h, self), Prefix(ArcBytes(h, self), index), self)
         ELSE Result("panic", v, h)

\* truncate that clamps the index to the length and to a char boundary
\* instead of panicking
RECURSIVE FloorBoundary(_, _)
FloorBoundary(bytes, index) ==
  IF index > Len(bytes) THEN Len(bytes)
  ELSE IF is_char_boundary(bytes, index) THEN index
  ELSE FloorBoundary(bytes, index - 1)

truncate_clamped(h, v, self, index) ==
  CASE v.tag = "Static" ->
         Result("ok", Static([ptr |-> v.ptr,
                              len |-> FloorBoundary(StrBytes(v), index)]), h)
    [] v.tag = "StaticAscii" ->
         Result("ok", StaticAscii([ptr |-> v.ptr,
                                   len |-> FloorBoundary(StrBytes(v), index)]), h)
    [] v.tag = "Arc" ->
         from_string(ArcRelease(h, self),
                     Prefix(ArcBytes(h, self), FloorBoundary(ArcBytes(h, self), index)),
                     self)

\* truncate(&mut self, index).  The slice expression panics before anything
\* is assigned.  In the Arc arm the assignment drops the old Arc and leaves
\* self pointing to the new allocation.
truncate(h, v, self, index) ==
  CASE v.tag = "Static" ->
         IF SliceOk(StrBytes(v), index)
         THEN Result("ok", Static([ptr |-> v.ptr, len |-> index]), h)
         ELSE Result("panic", v, h)
    [] v.tag = "StaticAscii" ->
         IF SliceOk(StrBytes(v), index)
         THEN Result("ok", StaticAscii([ptr |-> v.ptr, len |-> index]), h)
         ELSE Result("panic", v, h)
    [] v.tag = "Arc" ->
         IF SliceOk(ArcBytes(h, self), index)
         THEN from_string(ArcRelease(h, self), Prefix(ArcBytes(h, self), index), self)
         ELSE Result("panic", v, h)

(* --------------------------- bookkeeping ------------------------------- *)
NoOp == [op |-> "init", slot |-> 0, other |-> 0, index |-> 0, input |-> <<>>,
         outcome |-> "ok"]

NoHist == [orig |-> <<>>, min |-> 0]
NewHist(t) == [orig |-> t, min |-> Len(t)]

Min(a, b) == IF a <= b THEN a ELSE b

Init ==
  /\ vals = [s \in Slots |-> None]
  /\ heap = {}
  /\ hist = [s \in Slots |-> NoHist]
  /\ last = NoOp

(* ------------------------------ actions -------------------------------- *)
Empty(s) == vals[s].tag = "None"
Live(s) == vals[s].tag \in FastTags
HasArcStr(s) == vals[s].tag = "ArcStr"

\* a constructor's result r, built from the text t, is stored in the empty
\* slot s; a constructor that panics stores nothing
Construct(name, s, r, t) ==
  /\ Empty(s)
  /\ vals' = [vals EXCEPT ![s] = r.val]
  /\ heap' = r.heap
  /\ hist' = [hist EXCEPT ![s] = IF r.outcome = "ok" THEN NewHist(t) ELSE NoHist]
  /\ last' = [NoOp EXCEPT !.op = name, !.slot = s, !.input = t, !.outcome = r.outcome]

FromStatic(s, t) ==
  Construct("from_static", s, Result("ok", from_static(StaticStr(t)), heap), t)

EnsureStaticAscii(s, t) ==
  Construct("ensure_static_ascii", s, ensure_static_ascii(heap, StaticStr(t)), t)

FromOwnable(s, t, owned) ==
  Construct(IF owned THEN "from_ownable_owned" ELSE "from_ownable_borrowed", s,
            from_ownable(heap, [owned |-> owned, bytes |-> t], s), t)

FromString(s, t) ==
  Construct("from_string", s, from_string(heap, t, s), t)

FromUrl(s, u) ==
  Construct("from_url", s, from_url(heap, u, s), u.serialization)

Default(s) ==
  Construct("default", s, Result("ok", default, heap), <<>>)

\* the caller makes an Arc<str> from a text (let arc_str: Arc<str> = "..".into())
ArcNew(s, t) ==
  /\ Empty(s)
  /\ vals' = [vals EXCEPT ![s] = ArcStr]
  /\ heap' = ArcAlloc(heap, s, t)
  /\ last' = [NoOp EXCEPT !.op = "arc_new", !.slot = s, !.input = t]
  /\ UNCHANGED hist

\* from_arc(arc) when keep is false, from_arc(arc.clone()) when it is true;
\* the FastString goes to the empty slot d
FromArc(s, d, keep) ==
  /\ HasArcStr(s)
  /\ Empty(d)
  /\ LET r == from_arc(IF keep THEN ArcShare(heap, s, d) ELSE ArcMove(heap, s, d))
     IN /\ vals' = [vals EXCEPT ![d] = r.val, ![s] = IF keep THEN @ ELSE None]
        /\ heap' = r.heap
  /\ hist' = [hist EXCEPT ![d] = NewHist(ArcBytes(heap, s))]
  /\ last' = [NoOp EXCEPT !.op = IF keep THEN "from_arc_clone" ELSE "from_arc",
                          !.slot = d, !.other = s, !.input = ArcBytes(heap, s)]

Clone(s, d) ==
  /\ Live(s)
  /\ Empty(d)
  /\ LET r == clone(heap, vals[s], s, d) IN
       /\ vals' = [vals EXCEPT ![d] = r.val]
       /\ heap' = r.heap
  /\ hist' = [hist EXCEPT ![d] = hist[s]]
  /\ last' = [NoOp EXCEPT !.op = "clone", !.slot = d, !.other = s]

\* a FastString or an Arc<str> of the caller goes out of scope
Drop(s) ==
  /\ ~Empty(s)
  /\ vals' = [vals EXCEPT ![s] = None]
  /\ heap' = DropValue(heap, vals[s], s)
  /\ hist' = [hist EXCEPT ![s] = NoHist]
  /\ last' = [NoOp EXCEPT !.op = "drop", !.slot = s]

Truncate(s, index) ==
  /\ Live(s)
  /\ LET r == truncate(heap, vals[s], s, index) IN
       /\ vals' = [vals EXCEPT ![s] = r.val]
       /\ heap' = r.heap
       /\ hist' = IF r.outcome = "ok"
                  THEN [hist EXCEPT ![s].min = Min(@, index)]
                  ELSE hist
       /\ last' = [NoOp EXCEPT !.op = "truncate", !.slot = s, !.index = index,
                               !.outcome = r.outcome]

V8(s) ==
  /\ Live(s)
  /\ last' = [NoOp EXCEPT !.op = "v8", !.slot = s]
  /\ UNCHANGED <<vals, heap, hist>>

Eq(a, b) ==
  /\ Live(a)
  /\ Live(b)
  /\ last' = [NoOp EXCEPT !.op = IF eq(heap, vals[a], a, vals[b], b)
                                  THEN "eq_true" ELSE "eq_false",
                          !.slot = a, !.other = b]
  /\ UNCHANGED <<vals, heap, hist>>

Hash(s) ==
  /\ Live(s)
  /\ last' = [NoOp EXCEPT !.op = "hash", !.slot = s]
  /\ UNCHANGED <<vals, heap, hist>>

Next ==
  \/ \E s \in Slots, t \in Texts : FromStatic(s, t)
  \/ \E s \in Slots, t \in Texts : EnsureStaticAscii(s, t)
  \/ \E s \in Slots, t \in Texts, owned \in BOOLEAN : FromOwnable(s, t, owned)
  \/ \E s \in Slots, t \in Texts : FromString(s, t)
  \/ \E s \in Slots, u \in Urls : FromUrl(s, u)
  \/ \E s \in Slots : Default(s)
  \/ \E s \in Slots, t \in Texts : ArcNew(s, t)
  \/ \E s \in Slots, d \in Slots, keep \in BOOLEAN : FromArc(s, d, keep)
  \/ \E s \in Slots, d \in Slots : Clone(s, d)
  \/ \E s \in Slots : Drop(s)
  \/ \E s \in Slots, index \in Indices : Truncate(s, index)
  \/ \E s \in Slots : V8(s)
  \/ \E a \in Slots, b \in Slots : Eq(a, b)
  \/ \E s \in Slots : Hash(s)

Spec == Init /\ [][Next]_vars

(* ---------------------------- properties ------------------------------- *)
\* the bytes of the FastString in slot s
Content(s) == as_bytes(heap, vals[s], s)

\* the text the value in slot s was built from, cut at the smallest index
\* it was truncated with
Logical(s) == Prefix(hist[s].orig, hist[s].min)

AllAscii(bytes) == \A i \in 1..Len(bytes) : bytes[i] < 128
ArcTags == {"Arc", "ArcStr"}

\* C1: truncate(n) with n in bounds and on a char boundary does not panic and
\* leaves exactly the first n bytes of the previous content, as
\* String::truncate(n) does; after any sequence of truncations the content is
\* the prefix of the original text of the smallest length passed.
C1_TruncateIsPrefix ==
  [][ /\ (last'.op = "truncate"
            /\ SliceOk(as_str(heap, vals[last'.slot], last'.slot), last'.index))
         => LET s == last'.slot
                before == as_str(heap, vals[s], s)
                after == as_str(heap', vals'[s], s)
            IN /\ last'.outcome = "ok"
               /\ Len(after) = last'.index
               /\ after = Prefix(before, last'.index)
               /\ after = StringTruncate(before, last'.index)
      /\ \A s \in Slots :
           vals'[s].tag \in FastTags =>
             as_str(heap', vals'[s], s) = Prefix(hist'[s].orig, hist'[s].min)
    ]_vars

C1_Witness ==
  /\ last.op = "truncate"
  /\ last.outcome = "ok"
  /\ vals[last.slot].tag = "Arc"
  /\ hist[last.slot].orig = <<49, 194, 128>>
  /\ Content(last.slot) = <<49>>

\* C2: a value whose variant is StaticAscii holds only bytes below 0x80.
C2_StaticAsciiIsAscii ==
  \A s \in Slots :
    vals[s].tag = "StaticAscii" =>
      /\ AllAscii(Content(s))
      /\ AllAscii(try_static_ascii(vals[s]).bytes)

C2_Witness ==
  /\ last.op = "truncate"
  /\ last.outcome = "ok"
  /\ vals[last.slot].tag = "StaticAscii"
  /\ Content(last.slot) = <<49>>

\* C3: the scan is true iff every byte is below 0x80 (true for the empty
\* span and for 0x7f, false for 0x80); from_static never fails, gives
\* StaticAscii with try_static_ascii returning the text when the scan is
\* true, and Static with try_static_ascii returning nothing otherwise.
C3_FromStaticClassifies ==
  /\ is_ascii(<<>>)
  /\ is_ascii(<<127>>)
  /\ ~is_ascii(<<128>>)
  /\ last.op = "from_static" =>
       LET t == last.input
           v == vals[last.slot]
       IN /\ last.outcome = "ok"
          /\ is_ascii(t) <=> AllAscii(t)
          /\ AllAscii(t) =>
               /\ v.tag = "StaticAscii"
               /\ try_static_ascii(v) = [some |-> TRUE, bytes |-> t]
          /\ ~AllAscii(t) =>
               /\ v.tag = "Static"
               /\ StrBytes(v) = t
               /\ ~try_static_ascii(v).some

C3_Witness ==
  /\ last.op = "from_static"
  /\ last.input = <<49, 127>>
  /\ vals[last.slot].tag = "StaticAscii"

\* C4: two values are equal iff their bytes are equal, whatever their
\* variants and however they were built and truncated, and equal values feed
\* the hasher the same bytes.
C4_EqHashByContent ==
  /\ \A a \in Slots, b \in Slots :
       (vals[a].tag \in FastTags /\ vals[b].tag \in FastTags) =>
         LET e == eq(heap, vals[a], a, vals[b], b)
         IN /\ e <=> (Content(a) = Content(b))
            /\ e <=> (Logical(a) = Logical(b))
            /\ e => hash(heap, vals[a], a) = hash(heap, vals[b], b)
            /\ hash(heap, vals[a], a) = Logical(a) \o <<255>>
  /\ last.op \in {"eq_true", "eq_false"} =>
       (last.op = "eq_true") <=> (Logical(last.slot) = Logical(last.other))

C4_Witness ==
  /\ last.op = "eq_true"
  /\ vals[last.slot].tag = "StaticAscii"
  /\ vals[last.other].tag = "Arc"
  /\ Content(last.slot) = <<49, 127>>

\* C5: truncating an Arc value leaves it an Arc value whose allocation no
\* other slot points to, also when the index is the current length; every
\* other holder of an Arc<str> keeps its bytes across every step, the
\* truncation of an alias and the drop of the truncated value included.
C5_TruncateArcIsFresh ==
  [][ /\ (last'.op = "truncate" /\ last'.outcome = "ok"
            /\ vals[last'.slot].tag = "Arc")
         => /\ vals'[last'.slot].tag = "Arc"
            /\ AllocOf(heap', last'.slot).holders = {last'.slot}
            /\ \A o \in Slots \ {last'.slot} :
                 vals[o].tag \in ArcTags =>
                   /\ vals'[o] = vals[o]
                   /\ ArcBytes(heap', o) = ArcBytes(heap, o)
      /\ \A o \in Slots :
           (o # last'.slot /\ vals[o].tag \in ArcTags /\ vals'[o].tag = vals[o].tag)
             => ArcBytes(heap', o) = ArcBytes(heap, o)
    ]_vars

C5_Witness ==
  /\ last.op = "truncate"
  /\ last.outcome = "ok"
  /\ vals[last.slot].tag = "Arc"
  /\ Len(Content(last.slot)) < Len(hist[last.slot].orig)
  /\ \E o \in Slots \ {last.slot} :
       /\ vals[o].tag \in ArcTags
       /\ ArcBytes(heap, o) = hist[last.slot].orig

\* C6: ensure_static_ascii returns StaticAscii holding the text when every
\* byte is below 0x80, and panics without returning a value otherwise.
C6_EnsureStaticAsciiOrPanic ==
  last.op = "ensure_static_ascii" =>
    IF AllAscii(last.input)
    THEN /\ last.outcome = "ok"
         /\ vals[last.slot] = StaticAscii(StaticStr(last.input))
    ELSE /\ last.outcome = "panic"
         /\ vals[last.slot] = None

C6_Witness ==
  /\ last.op = "ensure_static_ascii"
  /\ last.input = <<49, 194, 128>>
  /\ last.outcome = "panic"

\* C7: v8 calls the external one-byte static constructor iff the variant is
\* StaticAscii, with the value's bytes, all below 0x80 and static; it calls
\* the UTF-8 constructor for every Static and Arc value, ASCII or not.
C7_V8ByVariant ==
  \A s \in Slots :
    vals[s].tag \in FastTags =>
      LET c == v8(heap, vals[s], s)
      IN /\ c.ctor \in {"new_external_onebyte_static", "new_from_utf8"}
         /\ (c.ctor = "new_external_onebyte_static") <=> (vals[s].tag = "StaticAscii")
         /\ c.bytes = Logical(s)
         /\ c.ctor = "new_external_onebyte_static" => (AllAscii(c.bytes) /\ c.static)
         /\ vals[s].tag \in {"Static", "Arc"} => c.ctor = "new_from_utf8"

C7_Witness ==
  /\ last.op = "v8"
  /\ vals[last.slot].tag = "Static"
  /\ Content(last.slot) = <<49>>

\* C8: from_ownable gives Arc, unscanned, for an owned input and the result
\* of from_static for a borrowed one; from_arc, From<String> and From<Url>
\* always give Arc.
C8_FromOwnableTwoPaths ==
  LET v == vals[last.slot] IN
  /\ last.op = "from_ownable_owned" =>
       /\ v.tag = "Arc"
       /\ ~try_static_ascii(v).some
       /\ Content(last.slot) = last.input
  /\ last.op = "from_ownable_borrowed" =>
       /\ v.tag = IF AllAscii(last.input) THEN "StaticAscii" ELSE "Static"
       /\ v.ptr = last.input
       /\ v.len = Len(last.input)
  /\ last.op \in {"from_arc", "from_arc_clone", "from_string", "from_url"} =>
       /\ v.tag = "Arc"
       /\ Content(last.slot) = last.input

C8_Witness ==
  /\ last.op = "from_ownable_borrowed"
  /\ last.input = <<49, 127>>
  /\ vals[last.slot].tag = "StaticAscii"

\* C9: a truncate that succeeds keeps the variant; a Static or StaticAscii
\* value keeps its pointer and gets the index as its length, and a Static
\* value still has no try_static_ascii bytes.
C9_TruncateKeepsVariant ==
  [][ (last'.op = "truncate" /\ last'.outcome = "ok")
        => LET s == last'.slot IN
           /\ vals'[s].tag = vals[s].tag
           /\ vals[s].tag \in {"Static", "StaticAscii"} =>
                /\ vals'[s].ptr = vals[s].ptr
                /\ vals'[s].len = last'.index
                /\ heap' = heap
           /\ vals[s].tag = "Static" => ~try_static_ascii(vals'[s]).some
    ]_vars

C9_Witness ==
  /\ last.op = "truncate"
  /\ last.outcome = "ok"
  /\ vals[last.slot].tag = "Static"
  /\ Content(last.slot) = <<49>>

\* C10: truncate with an index past the length or off a char boundary
\* panics and leaves the value, and everything else, as it was.
C10_BadIndexPanics ==
  [][ (last'.op = "truncate"
         /\ \/ last'.index > Len(as_bytes(heap, vals[last'.slot], last'.slot))
            \/ ~is_char_boundary(as_bytes(heap, vals[last'.slot], last'.slot),
                                 last'.index))
        => /\ last'.outcome = "panic"
           /\ vals' = vals
           /\ heap' = heap
           /\ hist' = hist
    ]_vars

C10_Witness ==
  /\ last.op = "truncate"
  /\ last.outcome = "panic"
  /\ vals[last.slot].tag = "Arc"
  /\ Content(last.slot) = <<49, 194, 128>>
  /\ last.index = 2

====
